---- MODULE Spec2Model ----
(***************************************************************************)
(* Model of the delta orchestrator of sfdx-mdt-plugin                      *)
(* (src/commands/mdt/git/delta.ts, Differ.run / Differ.delta) together     *)
(* with the string helpers of src/utils/utilities.ts it is built on.       *)
(*                                                                         *)
(* A JavaScript string is a sequence of tokens.  A token is either one     *)
(* character ("/", ".", "A") or an atom standing for a run of characters   *)
(* that contains neither "/" nor "." ("force-app", "default", "-meta").    *)
(* Every string of the model has one tokenisation, so string equality,     *)
(* prefix, suffix, indexOf and split are the sequence operations.          *)
(***************************************************************************)
EXTENDS Integers, Sequences, FiniteSets, TLC

(***************************************************************************)
(* String primitives of the JavaScript runtime.                            *)
(***************************************************************************)
Min2(a, b) == IF a < b THEN a ELSE b

Max2(a, b) == IF a < b THEN b ELSE a

Clamp(n, len) == IF n < 0 THEN 0 ELSE IF n > len THEN len ELSE n

\* String.prototype.indexOf(char): 0-based, -1 when absent.
indexOf(text, char) ==
  IF \E k \in 1..Len(text) : text[k] = char
  THEN (CHOOSE k \in 1..Len(text) :
          text[k] = char /\ \A j \in 1..(k - 1) : text[j] # char) - 1
  ELSE -1

\* String.prototype.lastIndexOf(char): 0-based, -1 when absent.
lastIndexOf(text, char) ==
  IF \E k \in 1..Len(text) : text[k] = char
  THEN (CHOOSE k \in 1..Len(text) :
          text[k] = char /\ \A j \in (k + 1)..Len(text) : text[j] # char) - 1
  ELSE -1

\* String.prototype.substring(a, b): arguments clamped to 0..length and
\* swapped when a > b.
substring(text, a, b) ==
  LET lo == Clamp(Min2(a, b), Len(text))
      hi == Clamp(Max2(a, b), Len(text))
  IN  SubSeq(text, lo + 1, hi)

\* String.prototype.substring(a).
substringFrom(text, a) == substring(text, a, Len(text))

startsWith(text, prefix) ==
  /\ Len(prefix) <= Len(text)
  /\ SubSeq(text, 1, Len(prefix)) = prefix

endsWith(text, suffix) ==
  /\ Len(suffix) <= Len(text)
  /\ SubSeq(text, Len(text) - Len(suffix) + 1, Len(text)) = suffix

\* String.prototype.split(char): the pieces between the occurrences of char.
RECURSIVE split(_, _)
split(text, char) ==
  LET k == indexOf(text, char)
  IN  IF k = -1 THEN <<text>>
      ELSE <<substring(text, 0, k)>> \o split(substringFrom(text, k + 1), char)

\* Array.prototype.join(char).
RECURSIVE join(_, _)
join(parts, char) ==
  IF Len(parts) = 0 THEN <<>>
  ELSE IF Len(parts) = 1 THEN parts[1]
  ELSE parts[1] \o <<char>> \o join(Tail(parts), char)

\* Array.prototype.slice(0, n).
slice0(parts, n) == SubSeq(parts, 1, Min2(n, Len(parts)))

\* String.prototype.replace(pattern, replacement) with a string pattern:
\* the first occurrence only.
replace(text, pattern, replacement) ==
  LET Hits == {k \in 1..(Len(text) - Len(pattern) + 1) :
                 SubSeq(text, k, k + Len(pattern) - 1) = pattern}
  IN  IF Hits = {} THEN text
      ELSE LET k == CHOOSE h \in Hits : \A g \in Hits : h <= g
           IN  SubSeq(text, 1, k - 1) \o replacement
                 \o SubSeq(text, k + Len(pattern), Len(text))

(***************************************************************************)
(* src/utils/utilities.ts                                                  *)
(***************************************************************************)
substringBefore(text, char) == substring(text, 0, indexOf(text, char))

substringBeforeLast(text, char) == substring(text, 0, lastIndexOf(text, char))

substringBeforeNthChar(text, char, n) == join(slice0(split(text, char), n), char)

substringAfter(text, char) == substringFrom(text, indexOf(text, char) + 1)

substringAfterLast(text, char) == substringFrom(text, lastIndexOf(text, char) + 1)

(***************************************************************************)
(* File contents.  A file is either opaque text (raw, told apart by a      *)
(* number) or an XML document: the declaration line, the root tag, and the *)
(* root's child elements in document order, each a tag with its entry.     *)
(* An entry is a record of its fields; a scalar element <active>true       *)
(* </active> is the entry [text |-> "true"].                               *)
(***************************************************************************)
Raw(n) == [kind |-> "raw", raw |-> n, decl |-> FALSE, root |-> "", elems |-> <<>>]

Xml(rootTagName, elems) ==
  [kind |-> "xml", raw |-> 0, decl |-> TRUE, root |-> rootTagName, elems |-> elems]

Absent == [kind |-> "absent", raw |-> 0, decl |-> FALSE, root |-> "", elems |-> <<>>]

El(tag, entry) == [tag |-> tag, entry |-> entry]

\* A file system: a function from the paths that exist to their content.
EmptyFS == [q \in {} |-> Absent]

exists(fs, path) == path \in DOMAIN fs

Put(fs, path, content) ==
  [q \in (DOMAIN fs) \cup {path} |-> IF q = path THEN content ELSE fs[q]]

Remove(fs, path) == [q \in (DOMAIN fs) \ {path} |-> fs[q]]

(***************************************************************************)
(* Code units of the characters that occur in identity keys, in ascending  *)
(* order, and the JavaScript string comparison a < b built on them.        *)
(***************************************************************************)
UpperCase ==
  <<"A", "B", "C", "D", "E", "F", "G", "H", "I", "J", "K", "L", "M",
    "N", "O", "P", "Q", "R", "S", "T", "U", "V", "W", "X", "Y", "Z">>

LowerCase ==
  <<"a", "b", "c", "d", "e", "f", "g", "h", "i", "j", "k", "l", "m",
    "n", "o", "p", "q", "r", "s", "t", "u", "v", "w", "x", "y", "z">>

Chars ==
  <<"-", ".", "/", "0", "1", "2", "3", "4", "5", "6", "7", "8", "9", "<", ">">>
    \o UpperCase \o <<"_">> \o LowerCase

CharCode(ch) == CHOOSE k \in 1..Len(Chars) : Chars[k] = ch

RECURSIVE StrLess(_, _)
StrLess(a, b) ==
  IF Len(b) = 0 THEN FALSE
  ELSE IF Len(a) = 0 THEN TRUE
  ELSE IF a[1] = b[1] THEN StrLess(Tail(a), Tail(b))
  ELSE CharCode(a[1]) < CharCode(b[1])

\* String.prototype.toLowerCase() of one character.
toLowerCase(ch) ==
  IF \E k \in 1..Len(UpperCase) : UpperCase[k] = ch
  THEN LowerCase[CHOOSE k \in 1..Len(UpperCase) : UpperCase[k] = ch]
  ELSE ch

\* Mutant: the string is returned as it is.
uncapitalizeFirstLetterNot(string) == string

\* utilities.ts 134-135: string.charAt(0).toLowerCase() + string.slice(1).
uncapitalizeFirstLetter(string) ==
  IF Len(string) = 0 THEN <<>>
  ELSE <<toLowerCase(string[1])>> \o SubSeq(string, 2, Len(string))

\* The name of the section with the hierarchical names, as the switch of
\* profileAccessFilenamesCompare spells it.
layoutAssignments ==
  <<"l", "a", "y", "o", "u", "t", "A", "s", "s", "i", "g", "n", "m", "e", "n", "t", "s">>

\* fileName1 > fileName2 ? 1 : -1
GreaterOrNot(fileName1, fileName2) == IF StrLess(fileName2, fileName1) THEN 1 ELSE -1

\* Mutant: the layout branch compares the whole names at once.
CompareLayoutPlain(fileName1, fileName2) == GreaterOrNot(fileName1, fileName2)

\* utilities.ts 47-68: case "layoutAssignments".
CompareLayout(fileName1, fileName2) ==
  LET fileName1Parts == split(fileName1, ".")
      fileName2Parts == split(fileName2, ".")
      layoutName1 == substringBefore(substringAfter(fileName1, "."), ".")
      layoutName2 == substringBefore(substringAfter(fileName2, "."), ".")
  IN  IF Len(fileName1Parts) # Len(fileName2Parts)
      THEN IF layoutName1 = layoutName2
           THEN (IF Len(fileName1Parts) > Len(fileName2Parts) THEN 1 ELSE -1)
           ELSE GreaterOrNot(layoutName1, layoutName2)
      ELSE IF layoutName1 # layoutName2 /\ startsWith(layoutName1, layoutName2) THEN 1
      ELSE IF layoutName1 # layoutName2 /\ startsWith(layoutName2, layoutName1) THEN -1
      ELSE GreaterOrNot(fileName1, fileName2)

\* utilities.ts 43-73.
profileAccessFilenamesCompare(fileName1, fileName2) ==
  LET accessType == uncapitalizeFirstLetter(substringBefore(fileName1, "."))
  IN  IF accessType = layoutAssignments
      THEN CompareLayout(fileName1, fileName2)
      ELSE GreaterOrNot(fileName1, fileName2)

\* Array.prototype.sort(profileAccessFilenamesCompare) by insertion: a name
\* goes before the first name it compares less than.
RECURSIVE insertFileName(_, _)
insertFileName(sorted, fileName) ==
  IF Len(sorted) = 0 THEN <<fileName>>
  ELSE IF profileAccessFilenamesCompare(fileName, sorted[1]) < 0
  THEN <<fileName>> \o sorted
  ELSE <<sorted[1]>> \o insertFileName(Tail(sorted), fileName)

RECURSIVE sortFileNames(_)
sortFileNames(fileNames) ==
  IF Len(fileNames) = 0 THEN <<>>
  ELSE insertFileName(sortFileNames(SubSeq(fileNames, 1, Len(fileNames) - 1)),
                      fileNames[Len(fileNames)])

(***************************************************************************)
(* Identity resolver: src/utils/utilities.ts, profileAccessNameMap and     *)
(* normalizeIP.  A field the entry does not have reads as undefined.       *)
(***************************************************************************)
Undefined == <<"undefined">>

Field(entry, name) == IF name \in DOMAIN entry THEN entry[name] ELSE Undefined

Truthy(entry, name) == name \in DOMAIN entry /\ entry[name] # <<>>

\* Mutant: no padding.
padStartNot(part, width, fill) == part

\* String.prototype.padStart(width, "0").
RECURSIVE padStart(_, _, _)
padStart(part, width, fill) ==
  IF Len(part) >= width THEN part ELSE padStart(<<fill>> \o part, width, fill)

PadWidth == 3

RECURSIVE MapPad(_)
MapPad(parts) ==
  IF Len(parts) = 0 THEN <<>>
  ELSE <<padStart(parts[1], PadWidth, "0")>> \o MapPad(Tail(parts))

normalizeIP(ip) == join(MapPad(split(ip, ".")), ".")

ProfileSections ==
  {"applicationVisibilities", "categoryGroupVisibilities",
   "customMetadataTypeAccesses", "classAccesses", "custom",
   "customPermissions", "customSettingAccesses", "description",
   "externalDataSourceAccess", "fieldPermissions", "flowAccesses",
   "fullName", "layoutAssignments", "loginHours", "loginIpRanges",
   "objectPermissions", "pageAccesses", "profileActionOverrides",
   "recordTypeVisibilities", "tabVisibilities", "userLicense",
   "userPermissions"}

profileAccessNameMap(section, profileAccess) ==
  CASE section = "applicationVisibilities" -> Field(profileAccess, "application")
    [] section = "categoryGroupVisibilities" -> Field(profileAccess, "dataCategoryGroup")
    [] section = "customMetadataTypeAccesses" -> Field(profileAccess, "name")
    [] section = "classAccesses" -> Field(profileAccess, "apexClass")
    [] section = "custom" -> <<"custom">>
    [] section = "customPermissions" -> Field(profileAccess, "name")
    [] section = "customSettingAccesses" -> Field(profileAccess, "name")
    [] section = "description" -> <<"description">>
    [] section = "externalDataSourceAccess" -> Field(profileAccess, "externalDataSource")
    [] section = "fieldPermissions" -> Field(profileAccess, "field")
    [] section = "flowAccesses" -> Field(profileAccess, "flowName")
    [] section = "fullName" -> <<"fullName">>
    [] section = "layoutAssignments" ->
         Field(profileAccess, "layout")
           \o (IF Truthy(profileAccess, "recordType")
               THEN <<".">> \o profileAccess["recordType"] ELSE <<>>)
    [] section = "loginHours" -> <<"loginHours">>
    [] section = "loginIpRanges" ->
         normalizeIP(Field(profileAccess, "startAddress")) \o <<".">>
           \o normalizeIP(Field(profileAccess, "endAddress"))
    [] section = "objectPermissions" -> Field(profileAccess, "object")
    [] section = "pageAccesses" -> Field(profileAccess, "apexPage")
    [] section = "profileActionOverrides" -> Field(profileAccess, "actionName")
    [] section = "recordTypeVisibilities" -> Field(profileAccess, "recordType")
    [] section = "tabVisibilities" -> Field(profileAccess, "tab")
    [] section = "userLicense" -> <<"userLicense">>
    [] section = "userPermissions" -> Field(profileAccess, "name")

(***************************************************************************)
(* Document codec, entry flattener, set differ and canonical composer.     *)
(* Their code (src/utils/delta.ts, copyDiffOfComplexMetadata and gitShow)  *)
(* is imported by delta.ts; the definitions follow sections 4.1 to 4.4,    *)
(* 4.6 and 6 of the specification.                                         *)
(***************************************************************************)
\* The tags of elems, each once, in first-seen order.
RECURSIVE TagsOf(_, _)
TagsOf(elems, seen) ==
  IF Len(elems) = 0 THEN <<>>
  ELSE IF elems[1].tag \in seen THEN TagsOf(Tail(elems), seen)
  ELSE <<elems[1].tag>> \o TagsOf(Tail(elems), seen \cup {elems[1].tag})

RECURSIVE EntriesOf(_, _)
EntriesOf(elems, tag) ==
  IF Len(elems) = 0 THEN <<>>
  ELSE (IF elems[1].tag = tag THEN <<elems[1].entry>> ELSE <<>>)
         \o EntriesOf(Tail(elems), tag)

\* parse(rawText): the document tree, or a ParseError on anything that is
\* not a well-formed document.  Elements of one tag form a section; a tag
\* that occurs once is held as a single non-list entry.
ParseOk(content) == content.kind = "xml"

Parse(content) ==
  LET tags == TagsOf(content.elems, {})
  IN  [root |-> content.root,
       sections |->
         [k \in 1..Len(tags) |->
            LET items == EntriesOf(content.elems, tags[k])
            IN  [name |-> tags[k], isList |-> Len(items) > 1, items |-> items]]]

\* The fields of the entries of the model, in canonical order.
FieldOrder ==
  <<"apexClass", "enabled", "fullName", "name", "picklist", "text", "value">>

RECURSIVE SerializeFields(_, _)
SerializeFields(entry, fields) ==
  IF Len(fields) = 0 THEN <<>>
  ELSE (IF fields[1] \in DOMAIN entry
        THEN <<"<", fields[1], ">">> \o entry[fields[1]] \o <<"<", "/", fields[1], ">">>
        ELSE <<>>)
         \o SerializeFields(entry, Tail(fields))

\* The canonical string form of an entry.
SerializedBody(entry) == SerializeFields(entry, FieldOrder)

IsScalar(entry) == DOMAIN entry = {"text"}

\* 4.1: constant identity for a singleton section, the table of the
\* composite type, and the serialized body for every other section.
IdentityKey(rootTagName, sectionName, entry) ==
  IF rootTagName \in {"Profile", "PermissionSet"} /\ sectionName \in ProfileSections
  THEN profileAccessNameMap(sectionName, entry)
  ELSE IF IsScalar(entry) THEN <<sectionName>>
  ELSE IF rootTagName = "CustomLabels" /\ sectionName = "labels"
  THEN Field(entry, "fullName")
  ELSE SerializedBody(entry)

FlatRecord(rootTagName, sectionName, entry) ==
  [sectionName |-> sectionName,
   identityKey |-> IdentityKey(rootTagName, sectionName, entry),
   serializedBody |-> SerializedBody(entry),
   entry |-> entry]

RECURSIVE FlattenItems(_, _, _)
FlattenItems(rootTagName, sectionName, items) ==
  IF Len(items) = 0 THEN <<>>
  ELSE <<FlatRecord(rootTagName, sectionName, items[1])>>
         \o FlattenItems(rootTagName, sectionName, Tail(items))

RECURSIVE FlattenSections(_, _)
FlattenSections(rootTagName, sections) ==
  IF Len(sections) = 0 THEN <<>>
  ELSE FlattenItems(rootTagName, sections[1].name, sections[1].items)
         \o FlattenSections(rootTagName, Tail(sections))

\* 4.2: one record per entry, in section-then-entry order.
Flatten(doc) == FlattenSections(doc.root, doc.sections)

SameKey(r, q) == r.sectionName = q.sectionName /\ r.identityKey = q.identityKey

Present(seq, r) == \E k \in 1..Len(seq) : SameKey(seq[k], r)

BodyIn(seq, r) ==
  \E k \in 1..Len(seq) : SameKey(seq[k], r) /\ seq[k].serializedBody = r.serializedBody

\* IdentityCollisionError: two entries of one section share an identity key.
Collides(seq) ==
  \E j, k \in 1..Len(seq) : j # k /\ SameKey(seq[j], seq[k])

IsChanged(oldSeq, newSeq, alwaysIncluded, r) ==
  \/ ~Present(oldSeq, r)
  \/ ~BodyIn(oldSeq, r)
  \/ r.sectionName \in alwaysIncluded

\* Mutant: every old record outside the always-included sections is reported.
IsRemovedUnchecked(oldSeq, newSeq, alwaysIncluded, r) ==
  r.sectionName \notin alwaysIncluded

IsRemoved(oldSeq, newSeq, alwaysIncluded, r) ==
  /\ ~Present(newSeq, r)
  /\ r.sectionName \notin alwaysIncluded

\* 4.3: the set differ.
SetDiffer(oldSeq, newSeq, alwaysIncluded) ==
  [changed |-> SelectSeq(newSeq, LAMBDA r : IsChanged(oldSeq, newSeq, alwaysIncluded, r)),
   removed |-> SelectSeq(oldSeq, LAMBDA r : IsRemoved(oldSeq, newSeq, alwaysIncluded, r))]

\* Insert r before the first record whose identity key is greater.
RECURSIVE InsertByKey(_, _)
InsertByKey(sorted, r) ==
  IF Len(sorted) = 0 THEN <<r>>
  ELSE IF StrLess(r.identityKey, sorted[1].identityKey) THEN <<r>> \o sorted
  ELSE <<sorted[1]>> \o InsertByKey(Tail(sorted), r)

RECURSIVE SortByKey(_)
SortByKey(records) ==
  IF Len(records) <= 1 THEN records
  ELSE InsertByKey(SortByKey(SubSeq(records, 1, Len(records) - 1)),
                   records[Len(records)])

RECURSIVE SectionNamesOf(_, _)
SectionNamesOf(records, seen) ==
  IF Len(records) = 0 THEN <<>>
  ELSE IF records[1].sectionName \in seen THEN SectionNamesOf(Tail(records), seen)
  ELSE <<records[1].sectionName>>
         \o SectionNamesOf(Tail(records), seen \cup {records[1].sectionName})

RECURSIVE ElementsOf(_)
ElementsOf(records) ==
  IF Len(records) = 0 THEN <<>>
  ELSE <<El(records[1].sectionName, records[1].entry)>> \o ElementsOf(Tail(records))

RECURSIVE ComposeSections(_, _)
ComposeSections(records, names) ==
  IF Len(names) = 0 THEN <<>>
  ELSE ElementsOf(SortByKey(SelectSeq(records, LAMBDA r : r.sectionName = names[1])))
         \o ComposeSections(records, Tail(names))

\* 4.4 and serialize: the records grouped by section in first-seen order,
\* each section sorted by identity key, under the root tag and behind the
\* declaration line.
CanonicalCompose(records, rootTagName) ==
  Xml(rootTagName, ComposeSections(records, SectionNamesOf(records, {})))

(***************************************************************************)
(* The effects of one work item.  A world holds the two output packages    *)
(* (files and directories), the error thrown so far ("" for none), the     *)
(* result of the last diff and the files written so far, each with the     *)
(* package it went to and its content; an effect after a throw does        *)
(* nothing.                                                                *)
(***************************************************************************)
NoDiff == [ran |-> FALSE, path |-> <<>>, rootTagName |-> "", oldSeq |-> <<>>,
           newSeq |-> <<>>, alwaysIncluded |-> {}, changed |-> <<>>, removed |-> <<>>]

World(pkgFiles, pkgFolders, destrFiles, destrFolders) ==
  [pkg |-> pkgFiles, pkgDirs |-> pkgFolders, destr |-> destrFiles,
   destrDirs |-> destrFolders, err |-> "", diff |-> NoDiff, wrote |-> {}]

Throw(w, error) == IF w.err # "" THEN w ELSE [w EXCEPT !.err = error]

\* The directories mkdir -p creates: every prefix of the path.
AncestorsOf(path) ==
  {join(slice0(split(path, "/"), n), "/") : n \in 1..Len(split(path, "/"))}

\* utilities.ts mkdirRecursive, under the package directory.
mkdirRecursive(w, path) ==
  IF w.err # "" THEN w ELSE [w EXCEPT !.pkgDirs = @ \cup AncestorsOf(path)]

\* utilities.ts mkdirRecursive, under the destructive directory.
mkdirRecursiveDestr(w, path) ==
  IF w.err # "" THEN w ELSE [w EXCEPT !.destrDirs = @ \cup AncestorsOf(path)]

\* utilities.ts writeFile to <destructivedir>/<path>.
writeFileDestr(w, path, content) ==
  IF w.err # "" THEN w
  ELSE IF substringBeforeLast(path, "/") \notin w.destrDirs THEN Throw(w, "IOError")
  ELSE [w EXCEPT !.destr = Put(@, path, content),
                 !.wrote = @ \cup {[package |-> "destructive", path |-> path,
                                    content |-> content]}]

\* writeFile to <packagedir>/<path>.
writeFilePkg(w, path, content) ==
  IF w.err # "" THEN w
  ELSE IF substringBeforeLast(path, "/") \notin w.pkgDirs THEN Throw(w, "IOError")
  ELSE [w EXCEPT !.pkg = Put(@, path, content),
                 !.wrote = @ \cup {[package |-> "change", path |-> path,
                                    content |-> content]}]

\* Mutant: the copy goes to one fixed name in the folder of the destination.
copyFileSyncFixedName(w, tree, src, dst) ==
  IF w.err # "" THEN w
  ELSE IF ~exists(tree, src) THEN Throw(w, "IOError")
  ELSE writeFilePkg(w, substringBeforeLast(dst, "/") \o <<"/", "copy">>, tree[src])

\* fs.copyFileSync(src, <packagedir>/<dst>) from the working tree tree.
copyFileSync(w, tree, src, dst) ==
  IF w.err # "" THEN w
  ELSE IF ~exists(tree, src) THEN Throw(w, "IOError")
  ELSE writeFilePkg(w, dst, tree[src])

\* gitShow(from, path): the content of path at revision from, or a
\* VCSLookupError when the revision has no such path.
gitShowOk(rev, path) == exists(rev, path)

gitShow(rev, path) == rev[path]

\* copyDiffOfComplexMetadata(from, path, {rootTagName, requiredTagNames},
\* packagedir, destructivedir?): 4.6 compoundDiff.  Both revisions are read
\* and parsed, the flattened records are diffed, the changed records are
\* composed into <packagedir>/<path> and, when a destructive directory is
\* passed, the removed records into <destructivedir>/<path>.
copyDiffOfComplexMetadata(w, rev, tree, path, rootTagName, requiredTagNames, withDestructive) ==
  IF w.err # "" THEN w
  ELSE IF ~gitShowOk(rev, path) THEN Throw(w, "VCSLookupError")
  ELSE IF ~exists(tree, path) THEN Throw(w, "IOError")
  ELSE IF ~ParseOk(gitShow(rev, path)) \/ ~ParseOk(tree[path]) THEN Throw(w, "ParseError")
  ELSE
    LET oldSeq == Flatten(Parse(gitShow(rev, path)))
        newSeq == Flatten(Parse(tree[path]))
        d == SetDiffer(oldSeq, newSeq, requiredTagNames)
        w1 == [w EXCEPT !.diff = [ran |-> TRUE, path |-> path, rootTagName |-> rootTagName,
                                  oldSeq |-> oldSeq, newSeq |-> newSeq,
                                  alwaysIncluded |-> requiredTagNames,
                                  changed |-> d.changed, removed |-> d.removed]]
        w2 == writeFilePkg(w1, path, CanonicalCompose(d.changed, rootTagName))
    IN  IF Collides(oldSeq) \/ Collides(newSeq) THEN Throw(w, "IdentityCollisionError")
        ELSE IF withDestructive
        THEN writeFileDestr(w2, path, CanonicalCompose(d.removed, rootTagName))
        ELSE w2

(***************************************************************************)
(* src/commands/mdt/git/delta.ts: the dispatch table of Differ.delta.      *)
(***************************************************************************)
FMD_FOLDER == <<"force-app", "/", "main", "/", "default">>

Folder(name) == FMD_FOLDER \o <<"/", name>>

\* The case labels whose body is one call of copyDiffOfComplexMetadata.
CompoundFolders ==
  {Folder("labels"), Folder("profiles"), Folder("permissionsets"),
   Folder("sharingRules"), Folder("assignmentRules"),
   Folder("autoResponseRules"), Folder("matchingRules"),
   Folder("translations"), Folder("workflows")}

rootTagName(metadataFolderPath) ==
  CASE metadataFolderPath = Folder("labels") -> "CustomLabels"
    [] metadataFolderPath = Folder("profiles") -> "Profile"
    [] metadataFolderPath = Folder("permissionsets") -> "PermissionSet"
    [] metadataFolderPath = Folder("sharingRules") -> "SharingRules"
    [] metadataFolderPath = Folder("assignmentRules") -> "AssignmentRules"
    [] metadataFolderPath = Folder("autoResponseRules") -> "AutoResponseRules"
    [] metadataFolderPath = Folder("matchingRules") -> "MatchingRules"
    [] metadataFolderPath = Folder("translations") -> "Translations"
    [] metadataFolderPath = Folder("workflows") -> "Workflow"
    [] metadataFolderPath = Folder("objects") -> "RecordType"

\* Mutant: the record type call passes no required tag names.
requiredTagNamesNone(metadataFolderPath) == {}

requiredTagNames(metadataFolderPath) ==
  IF metadataFolderPath = Folder("objects") THEN {"fullName", "active", "label"}
  ELSE {}

\* Mutant: every call passes destructivedir.
passesDestructivedirAlways(metadataFolderPath) == TRUE

\* Whether the call passes destructivedir as its fifth argument.
passesDestructivedir(metadataFolderPath) ==
  metadataFolderPath \in
    {Folder("labels"), Folder("sharingRules"), Folder("assignmentRules"),
     Folder("autoResponseRules"), Folder("matchingRules"), Folder("workflows")}

\* Mutant: the pattern misses the object's folder, objects/recordTypes.
isRecordTypePaternNoObject(folderPath) ==
  LET head == Folder("objects") \o <<"/", "recordTypes">>
  IN  \E a \in 1..Len(folderPath) :
        /\ a + Len(head) - 1 <= Len(folderPath)
        /\ SubSeq(folderPath, a, a + Len(head) - 1) = head

\* new RegExp(`${FMD_FOLDER}/objects/[^/]+/recordTypes`).test(folderPath)
isRecordTypePatern(folderPath) ==
  LET head == Folder("objects") \o <<"/">>
  IN  \E a \in 1..Len(folderPath), b \in 1..Len(folderPath) :
        /\ a + Len(head) < b
        /\ b + 1 <= Len(folderPath)
        /\ SubSeq(folderPath, a, a + Len(head) - 1) = head
        /\ \A k \in (a + Len(head))..(b - 1) : folderPath[k] # "/"
        /\ folderPath[b] = "/"
        /\ folderPath[b + 1] = "recordTypes"

(***************************************************************************)
(* The inputs: a repository with one file of every kind the dispatch table *)
(* tells apart, and the status lines git can report on it.                 *)
(***************************************************************************)
MetaSuffix == <<"-meta", ".", "xml">>

labelsFile == Folder("labels") \o <<"/", "CustomLabels", ".", "labels">> \o MetaSuffix

profileFile == Folder("profiles") \o <<"/", "Admin", ".", "profile">> \o MetaSuffix

recordTypeFile ==
  Folder("objects") \o <<"/", "Account", "/", "recordTypes", "/", "RT", ".", "recordType">>
    \o MetaSuffix

fieldFile ==
  Folder("objects") \o <<"/", "Account", "/", "fields", "/", "F", ".", "field">>
    \o MetaSuffix

classFile == Folder("classes") \o <<"/", "A", ".", "cls">>

classMetaFile == classFile \o MetaSuffix

classFileB == Folder("classes") \o <<"/", "B", ".", "cls">>

auraCmpFile == Folder("aura") \o <<"/", "cmp", "/", "cmp", ".", "cmp">>

auraJsFile == Folder("aura") \o <<"/", "cmp", "/", "cmpController", ".", "js">>

otFolder == Folder("objectTranslations") \o <<"/", "Account-fr">>

otFieldFile == otFolder \o <<"/", "Name", ".", "fieldTranslation">> \o MetaSuffix

otOtherFile == otFolder \o <<"/", "Other", ".", "fieldTranslation">> \o MetaSuffix

otDescriptor == otFolder \o <<"/", "Account-fr", ".", "objectTranslation">> \o MetaSuffix

srFolder == Folder("staticresources")

srDirectFile == srFolder \o <<"/", "logo", ".", "png">>

srDirectDescriptor == srFolder \o <<"/", "logo", ".", "resource">> \o MetaSuffix

srNestedFile == srFolder \o <<"/", "myres", "/", "js", "/", "app", ".", "js">>

srNestedOther == srFolder \o <<"/", "myres", "/", "js", "/", "lib", ".", "js">>

srNestedDescriptor == srFolder \o <<"/", "myres", ".", "resource">> \o MetaSuffix

srOrphanFile == srFolder \o <<"/", "nores", "/", "x", ".", "js">>

outsideFile == <<"docs", "/", "A", ".", "cls">>

outsideFileB == <<"docs", "/", "B", ".", "cls">>

\* Entries and documents.
Label(name, value) == [fullName |-> name, value |-> value]

Scalar(text) == [text |-> text]

ClassAccess(apexClass, enabled) == [apexClass |-> apexClass, enabled |-> enabled]

Picklist(name) == [picklist |-> name]

LabelA1 == El("labels", Label(<<"l", "a", "b", "e", "l", "a">>, <<"1">>))

LabelA2 == El("labels", Label(<<"l", "a", "b", "e", "l", "a">>, <<"2">>))

LabelZ1 == El("labels", Label(<<"l", "a", "b", "e", "l", "Z">>, <<"1">>))

LabelDocs ==
  {Xml("CustomLabels", <<>>),
   Xml("CustomLabels", <<LabelA1>>),
   Xml("CustomLabels", <<LabelA2>>),
   Xml("CustomLabels", <<LabelZ1>>),
   Xml("CustomLabels", <<LabelA1, LabelZ1>>),
   Xml("CustomLabels", <<LabelA2, LabelZ1>>)}

RTName == El("fullName", Scalar(<<"R", "T">>))

RTActive(b) == El("active", Scalar(<<b>>))

RTLabel == El("label", Scalar(<<"L">>))

RTPick(name) == El("picklistValues", Picklist(<<name>>))

RecordTypeDocs ==
  {Xml("RecordType", <<RTName, RTActive("true"), RTLabel, RTPick("P")>>),
   Xml("RecordType", <<RTName, RTActive("true"), RTLabel>>),
   Xml("RecordType", <<RTName, RTActive("true"), RTPick("P")>>),
   Xml("RecordType", <<RTName, RTActive("false"), RTLabel, RTPick("P"), RTPick("R")>>)}

ProfClass(name, enabled) == El("classAccesses", ClassAccess(<<name>>, <<enabled>>))

ProfLicense == El("userLicense", Scalar(<<"L">>))

ProfileDocs ==
  {Xml("Profile", <<ProfLicense, ProfClass("A", "true"), ProfClass("B", "true")>>),
   Xml("Profile", <<ProfLicense, ProfClass("A", "false")>>)}

\* The files both revisions hold unless a status line says otherwise.
BaseTree ==
  LET files ==
        {<<outsideFile, Raw(1)>>, <<auraCmpFile, Raw(2)>>, <<auraJsFile, Raw(3)>>,
         <<classFile, Raw(4)>>, <<classMetaFile, Raw(5)>>,
         <<labelsFile, Xml("CustomLabels", <<LabelA1>>)>>,
         <<otFieldFile, Raw(6)>>, <<otOtherFile, Raw(7)>>, <<otDescriptor, Raw(8)>>,
         <<fieldFile, Raw(9)>>,
         <<recordTypeFile, Xml("RecordType", <<RTName, RTActive("true"), RTLabel>>)>>,
         <<profileFile, Xml("Profile", <<ProfLicense, ProfClass("A", "true")>>)>>,
         <<srDirectFile, Raw(10)>>, <<srDirectDescriptor, Raw(11)>>,
         <<srNestedFile, Raw(12)>>, <<srNestedOther, Raw(13)>>,
         <<srNestedDescriptor, Raw(14)>>, <<srOrphanFile, Raw(15)>>}
  IN  [q \in {f[1] : f \in files} |-> (CHOOSE f \in files : f[1] = q)[2]]

\* The content a modified plain file had at the from revision.
OldRaw == Raw(0)

\* One line of git diff --name-status, split at the tabs, with the content
\* of its path(s) at the two revisions (Absent: the path is not there).
Modified(path, old, new) ==
  [parts |-> <<<<"M">>, path>>, src |-> path, dst |-> path, old |-> old, new |-> new]

Added(path, new) ==
  [parts |-> <<<<"A">>, path>>, src |-> path, dst |-> path, old |-> Absent, new |-> new]

Deleted(path, old) ==
  [parts |-> <<<<"D">>, path>>, src |-> path, dst |-> path, old |-> old, new |-> Absent]

Renamed(path, newPath, content) ==
  [parts |-> <<<<"R", "1", "0", "0">>, path, newPath>>, src |-> path, dst |-> newPath,
   old |-> content, new |-> content]

LabelPairs ==
  {<<Xml("CustomLabels", <<LabelA1, LabelZ1>>), Xml("CustomLabels", <<LabelA1>>)>>,
   <<Xml("CustomLabels", <<LabelA1>>), Xml("CustomLabels", <<LabelZ1, LabelA1>>)>>,
   <<Xml("CustomLabels", <<LabelA1, LabelZ1>>), Xml("CustomLabels", <<LabelA2, LabelZ1>>)>>,
   <<Xml("CustomLabels", <<LabelA1>>), Xml("CustomLabels", <<LabelZ1>>)>>,
   <<Xml("CustomLabels", <<LabelA1, LabelZ1>>), Xml("CustomLabels", <<>>)>>,
   <<Xml("CustomLabels", <<LabelA1, LabelZ1>>), Xml("CustomLabels", <<LabelZ1, LabelA1>>)>>,
   <<Xml("CustomLabels", <<LabelA1>>), Raw(16)>>}

RecordTypePairs ==
  {<<old, new>> \in RecordTypeDocs \X RecordTypeDocs : old # new}

ProfilePairs ==
  {<<old, new>> \in ProfileDocs \X ProfileDocs : old # new}

\* The lines git can report, grouped by the path they are listed under, the
\* groups in the order of git's output (ascending path).
LineGroups ==
  <<{Modified(outsideFile, OldRaw, Raw(1))},
    {Renamed(classFile, outsideFileB, Raw(4))},
    {Modified(auraJsFile, OldRaw, Raw(3))},
    {Modified(classFile, OldRaw, Raw(4)), Deleted(classFile, Raw(4))},
    {Renamed(outsideFile, classFileB, Raw(1)), Renamed(classFile, classFileB, Raw(4))},
    {Added(labelsFile, Xml("CustomLabels", <<LabelA1>>)),
     Deleted(labelsFile, Xml("CustomLabels", <<LabelA1>>))}
      \cup {Modified(labelsFile, pr[1], pr[2]) : pr \in LabelPairs},
    {Modified(otFieldFile, OldRaw, Raw(6))},
    {Modified(fieldFile, OldRaw, Raw(9))},
    {Modified(recordTypeFile, pr[1], pr[2]) : pr \in RecordTypePairs},
    {Modified(profileFile, pr[1], pr[2]) : pr \in ProfilePairs},
    {Modified(srDirectFile, OldRaw, Raw(10))},
    {Modified(srDirectDescriptor, OldRaw, Raw(11))},
    {Modified(srNestedFile, OldRaw, Raw(12))},
    {Modified(srOrphanFile, OldRaw, Raw(15))}>>

CandidateLines == UNION {LineGroups[g] : g \in 1..Len(LineGroups)}

GroupOf(l) == CHOOSE g \in 1..Len(LineGroups) : l \in LineGroups[g]

\* The most status lines of one run.
MaxLines == 2

Touched(l) == {l.src, l.dst}

\* The status lists: in git's order, and no path is reported twice.
StatusLists ==
  {ls \in UNION {[1..n -> CandidateLines] : n \in 0..MaxLines} :
     \A j, k \in 1..Len(ls) :
       j < k => /\ GroupOf(ls[j]) < GroupOf(ls[k])
                /\ Touched(ls[j]) \cap Touched(ls[k]) = {}}

RECURSIVE FromRevisionOf(_, _)
FromRevisionOf(ls, tree) ==
  IF Len(ls) = 0 THEN tree
  ELSE LET l == ls[1]
           t1 == IF l.old = Absent THEN Remove(tree, l.src) ELSE Put(tree, l.src, l.old)
           t2 == IF l.dst # l.src THEN Remove(t1, l.dst) ELSE t1
       IN  FromRevisionOf(Tail(ls), t2)

RECURSIVE WorkingTreeOf(_, _)
WorkingTreeOf(ls, tree) ==
  IF Len(ls) = 0 THEN tree
  ELSE LET l == ls[1]
           t1 == IF l.dst # l.src THEN Remove(tree, l.src) ELSE tree
           t2 == IF l.new = Absent THEN Remove(t1, l.dst) ELSE Put(t1, l.dst, l.new)
       IN  WorkingTreeOf(Tail(ls), t2)

\* The last piece of the output of git, which ends in a line break.
EmptyLine == <<<<>>>>

(***************************************************************************)
(* State.                                                                  *)
(*   gitDiffList      the lines of git diff --name-status from to          *)
(*   fromRev          the files of revision from (what gitShow reads)      *)
(*   worktree         the files of the working tree (what fs reads)        *)
(*   destructivedir   whether the flag -d was given                        *)
(*   lineNo, delNo, chgNo   the next item of the three loops of delta      *)
(*   pkg, pkgDirs     files and directories under packagedir               *)
(*   destr, destrDirs files and directories under destructivedir           *)
(*   pc               "delta", "thrown", "caught" or "done"                *)
(*   error            the error delta threw, "" for none                   *)
(*   result           what run returned, NoResult before it returns        *)
(*   applied          the case of the switch taken for each changed path   *)
(*   lastDiff         the diff result of the last compound diff            *)
(*   written          per work item taken up, its path and the files it    *)
(*                    wrote                                                *)
(*   fn, args, ret    a call of one helper on its own: the function, its   *)
(*                    arguments and what it returned ("delta" while the    *)
(*                    orchestrator runs)                                   *)
(***************************************************************************)
VARIABLES gitDiffList, fromRev, worktree, destructivedir,
          changedMetadataFilePathList, deletedMetadataFilePathList,
          lineNo, delNo, chgNo, pkg, pkgDirs, destr, destrDirs,
          pc, error, result, applied, lastDiff, written, fn, args, ret

vars == <<gitDiffList, fromRev, worktree, destructivedir,
          changedMetadataFilePathList, deletedMetadataFilePathList,
          lineNo, delNo, chgNo, pkg, pkgDirs, destr, destrDirs,
          pc, error, result, applied, lastDiff, written, fn, args, ret>>

helper == <<fn, args, ret>>

inputs == <<gitDiffList, fromRev, worktree, destructivedir>>

NoResult == [returned |-> FALSE, success |-> FALSE]

\* What a helper called on its own has returned before it returns.
Pending == [pending |-> TRUE]

Init ==
  \E ls \in StatusLists, d \in BOOLEAN :
    /\ gitDiffList = [k \in 1..Len(ls) |-> ls[k].parts] \o EmptyLine
    /\ fromRev = FromRevisionOf(ls, BaseTree)
    /\ worktree = WorkingTreeOf(ls, BaseTree)
    /\ destructivedir = d
    /\ changedMetadataFilePathList = <<>>
    /\ deletedMetadataFilePathList = <<>>
    /\ lineNo = 1
    /\ delNo = 1
    /\ chgNo = 1
    /\ pkg = EmptyFS
    /\ pkgDirs = {}
    /\ destr = EmptyFS
    /\ destrDirs = {}
    /\ pc = "delta"
    /\ error = ""
    /\ result = NoResult
    /\ applied = <<>>
    /\ lastDiff = NoDiff
    /\ written = <<>>
    /\ fn = "delta"
    /\ args = <<>>
    /\ ret = Pending

\* String.prototype.charAt(0).
charAt0(text) == IF Len(text) = 0 THEN "" ELSE text[1]

\* diffFileParts[2]: undefined when the line has no third part.
Part(diffFileParts, n) ==
  IF n <= Len(diffFileParts) THEN diffFileParts[n] ELSE Undefined

\* delta.ts 83: the lines the orchestrator takes up.
accepted(diffFileParts) ==
  Len(diffFileParts) > 1 /\ startsWith(diffFileParts[2], FMD_FOLDER)

\* delta.ts 84-101: what a line pushes on deletedMetadataFilePathList.
deletedPush(diffFileParts) ==
  IF accepted(diffFileParts) /\ charAt0(diffFileParts[1]) \in {"D", "R"}
  THEN <<diffFileParts[2]>>
  ELSE <<>>

\* Mutant: a deleted path is taken for a modified one.
changedPushDeleted(diffFileParts) ==
  IF ~accepted(diffFileParts) THEN <<>>
  ELSE IF charAt0(diffFileParts[1]) = "R" THEN <<Part(diffFileParts, 3)>>
  ELSE <<diffFileParts[2]>>

\* delta.ts 91-109: what a line pushes on changedMetadataFilePathList.
changedPush(diffFileParts) ==
  IF ~accepted(diffFileParts) \/ charAt0(diffFileParts[1]) = "D" THEN <<>>
  ELSE IF charAt0(diffFileParts[1]) = "R" THEN <<Part(diffFileParts, 3)>>
  ELSE <<diffFileParts[2]>>

\* delta.ts 81-112: one iteration of gitDiffList.split("\n").forEach.
ClassifyLine ==
  /\ pc = "delta"
  /\ lineNo <= Len(gitDiffList)
  /\ deletedMetadataFilePathList' =
       deletedMetadataFilePathList \o deletedPush(gitDiffList[lineNo])
  /\ changedMetadataFilePathList' =
       changedMetadataFilePathList \o changedPush(gitDiffList[lineNo])
  /\ lineNo' = lineNo + 1
  /\ UNCHANGED <<inputs, helper, delNo, chgNo, pkg, pkgDirs, destr, destrDirs,
                 pc, error, result, applied, lastDiff, written>>

Classified == lineNo > Len(gitDiffList)

\* The loop of delta.ts 113-121 has run to its end, or is skipped.
DeletionsDone ==
  Classified /\ (~destructivedir \/ delNo > Len(deletedMetadataFilePathList))

CurrentWorld == World(pkg, pkgDirs, destr, destrDirs)

\* The state a work item leaves: its writes, and the throw if it threw.
Leave(w) ==
  /\ pkg' = w.pkg
  /\ pkgDirs' = w.pkgDirs
  /\ destr' = w.destr
  /\ destrDirs' = w.destrDirs
  /\ error' = w.err
  /\ pc' = IF w.err # "" THEN "thrown" ELSE "delta"

\* delta.ts 114-120: one iteration of the loop over the deleted paths.
DeletePath ==
  /\ pc = "delta"
  /\ Classified
  /\ destructivedir
  /\ delNo <= Len(deletedMetadataFilePathList)
  /\ LET metadataFilePath == deletedMetadataFilePathList[delNo]
         w1 == mkdirRecursiveDestr(CurrentWorld, substringBeforeLast(metadataFilePath, "/"))
         w2 == IF gitShowOk(fromRev, metadataFilePath)
               THEN writeFileDestr(w1, metadataFilePath, gitShow(fromRev, metadataFilePath))
               ELSE Throw(w1, "VCSLookupError")
     IN  /\ Leave(w2)
         /\ delNo' = IF w2.err = "" THEN delNo + 1 ELSE delNo
         /\ written' = Append(written, [item |-> metadataFilePath, files |-> w2.wrote])
  /\ UNCHANGED <<inputs, helper, changedMetadataFilePathList, deletedMetadataFilePathList,
                 lineNo, chgNo, result, applied, lastDiff>>

\* The loop of delta.ts 122-321 is at a changed path.
AtChangedPath ==
  /\ pc = "delta"
  /\ DeletionsDone
  /\ chgNo <= Len(changedMetadataFilePathList)

\* delta.ts 123-130: the output directories of the path.  A rename line
\* without a new path pushed undefined, which substringBeforeLast rejects.
Prologue(w, metadataFilePath) ==
  IF metadataFilePath = Undefined THEN Throw(w, "TypeError")
  ELSE LET w1 == mkdirRecursive(w, substringBeforeLast(metadataFilePath, "/"))
       IN  IF destructivedir
           THEN mkdirRecursiveDestr(w1, substringBeforeLast(metadataFilePath, "/"))
           ELSE w1

\* Mutant: the meta file is never copied.
CopyMetaFileNever(w, metadataFilePath) == w

\* delta.ts 313-320: copy meta file if exists.
CopyMetaFile(w, metadataFilePath) ==
  LET metaFileName == metadataFilePath \o MetaSuffix
  IN  IF exists(worktree, metaFileName)
      THEN copyFileSync(w, worktree, metaFileName, metaFileName)
      ELSE w

\* The end of one iteration: the writes stay, a throw leaves the loop.
Finish(w, kind) ==
  /\ Leave(w)
  /\ chgNo' = IF w.err = "" THEN chgNo + 1 ELSE chgNo
  /\ applied' = Append(applied, [path |-> changedMetadataFilePathList[chgNo],
                                 kind |-> kind])
  /\ lastDiff' = IF w.diff.ran THEN w.diff ELSE lastDiff
  /\ written' = Append(written, [item |-> changedMetadataFilePathList[chgNo],
                                 files |-> w.wrote])
  /\ UNCHANGED <<inputs, helper, changedMetadataFilePathList, deletedMetadataFilePathList,
                 lineNo, delNo, result>>

\* Mutant: the listing stops after one name.
readdirSyncOne(tree, folderPath) ==
  LET names ==
        {LET rest == substringFrom(q, Len(folderPath) + 1)
         IN  IF indexOf(rest, "/") = -1 THEN rest ELSE substringBefore(rest, "/") :
           q \in {f \in DOMAIN tree : startsWith(f, folderPath \o <<"/">>)}}
  IN  IF names = {} THEN {} ELSE {CHOOSE n \in names : TRUE}

\* fs.readdirSync(folderPath): the names right below the folder.
readdirSync(tree, folderPath) ==
  {LET rest == substringFrom(q, Len(folderPath) + 1)
   IN  IF indexOf(rest, "/") = -1 THEN rest ELSE substringBefore(rest, "/") :
     q \in {f \in DOMAIN tree : startsWith(f, folderPath \o <<"/">>)}}

RECURSIVE CopyNames(_, _, _, _)
CopyNames(w, tree, folderPath, names) ==
  IF names = {} THEN w
  ELSE LET name == CHOOSE n \in names : TRUE
           file == folderPath \o <<"/">> \o name
       IN  CopyNames(copyFileSync(w, tree, file, file), tree, folderPath, names \ {name})

\* delta.ts 140-148: handle aura components.  A name that is no file makes
\* copyFileSync throw after the names listed before it were copied; the
\* order of the listing is the file system's.
ChangeAura ==
  /\ AtChangedPath
  /\ LET metadataFilePath == changedMetadataFilePathList[chgNo]
         folderPath == substringBeforeLast(metadataFilePath, "/")
         metadataFolderPath == substringBeforeNthChar(metadataFilePath, "/", 4)
         auraFileNames == readdirSync(worktree, folderPath)
         files == {n \in auraFileNames : exists(worktree, folderPath \o <<"/">> \o n)}
         w0 == Prologue(CurrentWorld, metadataFilePath)
     IN  /\ metadataFolderPath = Folder("aura")
         /\ IF auraFileNames = {} THEN Finish(Throw(w0, "IOError"), "bundleCopy")
            ELSE IF files = auraFileNames
            THEN Finish(CopyMetaFile(CopyNames(w0, worktree, folderPath, files),
                                     metadataFilePath), "bundleCopy")
            ELSE \E copied \in SUBSET files :
                   Finish(Throw(CopyNames(w0, worktree, folderPath, copied), "IOError"),
                          "bundleCopy")

\* delta.ts 150-171: handle objects.
ChangeObjects ==
  /\ AtChangedPath
  /\ LET metadataFilePath == changedMetadataFilePathList[chgNo]
         folderPath == substringBeforeLast(metadataFilePath, "/")
         metadataFolderPath == substringBeforeNthChar(metadataFilePath, "/", 4)
         w0 == Prologue(CurrentWorld, metadataFilePath)
     IN  /\ metadataFolderPath = Folder("objects")
         /\ IF isRecordTypePatern(folderPath)
            THEN Finish(CopyMetaFile(
                          copyDiffOfComplexMetadata(w0, fromRev, worktree, metadataFilePath,
                            rootTagName(metadataFolderPath),
                            requiredTagNames(metadataFolderPath),
                            destructivedir /\ passesDestructivedir(metadataFolderPath)),
                          metadataFilePath), "compoundDiff")
            ELSE Finish(CopyMetaFile(
                          copyFileSync(w0, worktree, metadataFilePath, metadataFilePath),
                          metadataFilePath), "verbatim")

\* delta.ts 173-183: handle object translations.
ChangeObjectTranslations ==
  /\ AtChangedPath
  /\ LET metadataFilePath == changedMetadataFilePathList[chgNo]
         folderPath == substringBeforeLast(metadataFilePath, "/")
         metadataFolderPath == substringBeforeNthChar(metadataFilePath, "/", 4)
         objTraFolderName == substringAfterLast(folderPath, "/")
         descriptor == folderPath \o <<"/">> \o objTraFolderName
                         \o <<".", "objectTranslation">> \o MetaSuffix
         w0 == Prologue(CurrentWorld, metadataFilePath)
         w1 == copyFileSync(w0, worktree, descriptor, descriptor)
         w2 == copyFileSync(w1, worktree, metadataFilePath, metadataFilePath)
     IN  /\ metadataFolderPath = Folder("objectTranslations")
         /\ Finish(CopyMetaFile(w2, metadataFilePath), "bundleCopy")

ResourceMetaSuffix == <<".", "resource">> \o MetaSuffix

\* delta.ts 185-216: handle static resources.
ChangeStaticResources ==
  /\ AtChangedPath
  /\ LET metadataFilePath == changedMetadataFilePathList[chgNo]
         folderPath == substringBeforeLast(metadataFilePath, "/")
         metadataFolderPath == substringBeforeNthChar(metadataFilePath, "/", 4)
         staticResourceFolder == Folder("staticresources")
         subFolderPath == replace(folderPath, staticResourceFolder \o <<"/">>, <<>>)
         resourceFolderName == substringBefore(subFolderPath \o <<"/">>, "/")
         folderDescriptor ==
           staticResourceFolder \o <<"/">> \o resourceFolderName \o ResourceMetaSuffix
         resourceName ==
           substringBeforeLast(substringAfterLast(metadataFilePath, "/"), ".")
         fileDescriptor == folderPath \o <<"/">> \o resourceName \o ResourceMetaSuffix
         w0 == Prologue(CurrentWorld, metadataFilePath)
         w1 == IF folderPath # staticResourceFolder
               THEN copyFileSync(w0, worktree, folderDescriptor, folderDescriptor)
               ELSE IF ~endsWith(metadataFilePath, ResourceMetaSuffix)
               THEN copyFileSync(w0, worktree, fileDescriptor, fileDescriptor)
               ELSE w0
         w2 == copyFileSync(w1, worktree, metadataFilePath, metadataFilePath)
     IN  /\ metadataFolderPath = staticResourceFolder
         /\ Finish(CopyMetaFile(w2, metadataFilePath), "bundleCopy")

\* delta.ts 218-303: custom labels, profiles, permission sets, sharing,
\* assignment, auto response and matching rules, translations, workflows.
ChangeCompound ==
  /\ AtChangedPath
  /\ LET metadataFilePath == changedMetadataFilePathList[chgNo]
         metadataFolderPath == substringBeforeNthChar(metadataFilePath, "/", 4)
         w0 == Prologue(CurrentWorld, metadataFilePath)
     IN  /\ metadataFolderPath \in CompoundFolders
         /\ Finish(CopyMetaFile(
                     copyDiffOfComplexMetadata(w0, fromRev, worktree, metadataFilePath,
                       rootTagName(metadataFolderPath),
                       requiredTagNames(metadataFolderPath),
                       destructivedir /\ passesDestructivedir(metadataFolderPath)),
                     metadataFilePath), "compoundDiff")

\* The case labels of the switch of delta.ts 138-311.
SwitchCases ==
  CompoundFolders
    \cup {Folder("aura"), Folder("objects"), Folder("objectTranslations"),
          Folder("staticresources")}

\* delta.ts 305-310: handle all other metadata.
ChangeDefault ==
  /\ AtChangedPath
  /\ LET metadataFilePath == changedMetadataFilePathList[chgNo]
         metadataFolderPath == substringBeforeNthChar(metadataFilePath, "/", 4)
         w0 == Prologue(CurrentWorld, metadataFilePath)
     IN  /\ metadataFolderPath \notin SwitchCases
         /\ Finish(CopyMetaFile(
                     copyFileSync(w0, worktree, metadataFilePath, metadataFilePath),
                     metadataFilePath), "verbatim")

\* delta.ts 58-62: run catches what delta threw and prints it.
RunCatch ==
  /\ pc = "thrown"
  /\ pc' = "caught"
  /\ UNCHANGED <<inputs, helper, changedMetadataFilePathList, deletedMetadataFilePathList,
                 lineNo, delNo, chgNo, pkg, pkgDirs, destr, destrDirs,
                 error, result, applied, lastDiff, written>>

\* delta returned: the three loops have run to their end.
DeltaReturned ==
  /\ pc = "delta"
  /\ DeletionsDone
  /\ chgNo > Len(changedMetadataFilePathList)

\* delta.ts 63-65: after the try statement, in either case.
RunReturn ==
  /\ pc = "caught" \/ DeltaReturned
  /\ result' = [returned |-> TRUE, success |-> TRUE]
  /\ pc' = "done"
  /\ UNCHANGED <<inputs, helper, changedMetadataFilePathList, deletedMetadataFilePathList,
                 lineNo, delNo, chgNo, pkg, pkgDirs, destr, destrDirs,
                 error, applied, lastDiff, written>>

Next ==
  \/ ClassifyLine
  \/ DeletePath
  \/ ChangeAura
  \/ ChangeObjects
  \/ ChangeObjectTranslations
  \/ ChangeStaticResources
  \/ ChangeCompound
  \/ ChangeDefault
  \/ RunCatch
  \/ RunReturn

Spec == Init /\ [][Next]_vars

(***************************************************************************)
(* Vocabulary of the properties.                                           *)
(***************************************************************************)
\* The (section, identity key) pairs of a flattened sequence.
KeysOf(seq) == {<<seq[k].sectionName, seq[k].identityKey>> : k \in 1..Len(seq)}

BodyAt(seq, sk) ==
  (CHOOSE r \in {seq[k] : k \in 1..Len(seq)} :
     <<r.sectionName, r.identityKey>> = sk).serializedBody

RecordsOf(seq) == {seq[k] : k \in 1..Len(seq)}

\* The status lines taken up so far.
LinesRead == {gitDiffList[k] : k \in 1..(lineNo - 1)}

IsStatus(diffFileParts, letter) ==
  Len(diffFileParts) > 1 /\ Len(diffFileParts[1]) > 0 /\ diffFileParts[1][1] = letter

\* The changed paths whose work item ran to its end.
Materialized == {changedMetadataFilePathList[k] : k \in 1..(chgNo - 1)}

\* C1 as stated. Diff completeness: every (section, identity key) present in
\* exactly one of the two flattened revisions is in exactly one of changed and
\* removed (only in new: changed, only in old: removed), no key is in both,
\* and a key in both revisions with different bodies is only in changed,
\* whatever the always-included sections are.
C1_DiffCompletenessAsStated ==
  lastDiff.ran =>
    LET O == KeysOf(lastDiff.oldSeq)
        N == KeysOf(lastDiff.newSeq)
        C == KeysOf(lastDiff.changed)
        R == KeysOf(lastDiff.removed)
    IN  /\ \A sk \in N \ O : sk \in C /\ sk \notin R
        /\ \A sk \in O \ N : sk \in R /\ sk \notin C
        /\ C \cap R = {}
        /\ \A sk \in O \cap N :
             BodyAt(lastDiff.oldSeq, sk) # BodyAt(lastDiff.newSeq, sk)
               => sk \in C /\ sk \notin R

\* C1 (amended). Diff completeness: a key only in the new revision is in
\* changed and not in removed; a key only in the old revision is in removed and
\* not in changed, unless its section is always-included, and then it is in
\* neither; no key is in both outputs; a key in both revisions with different
\* bodies is only in changed.
C1_DiffCompleteness ==
  lastDiff.ran =>
    LET O == KeysOf(lastDiff.oldSeq)
        N == KeysOf(lastDiff.newSeq)
        C == KeysOf(lastDiff.changed)
        R == KeysOf(lastDiff.removed)
    IN  /\ \A sk \in N \ O : sk \in C /\ sk \notin R
        /\ \A sk \in O \ N :
             IF sk[1] \in lastDiff.alwaysIncluded
             THEN sk \notin R /\ sk \notin C
             ELSE sk \in R /\ sk \notin C
        /\ C \cap R = {}
        /\ \A sk \in O \cap N :
             BodyAt(lastDiff.oldSeq, sk) # BodyAt(lastDiff.newSeq, sk)
               => sk \in C /\ sk \notin R

\* A diff with a removed key, a changed key, and an always-included key that
\* only the old revision has.
C1_Witness ==
  /\ lastDiff.ran
  /\ \E sk \in KeysOf(lastDiff.oldSeq) \ KeysOf(lastDiff.newSeq) :
       sk[1] \in lastDiff.alwaysIncluded
  /\ \E sk \in KeysOf(lastDiff.oldSeq) \ KeysOf(lastDiff.newSeq) :
       sk \in KeysOf(lastDiff.removed)
  /\ \E sk \in KeysOf(lastDiff.oldSeq) \cap KeysOf(lastDiff.newSeq) :
       /\ BodyAt(lastDiff.oldSeq, sk) # BodyAt(lastDiff.newSeq, sk)
       /\ sk \in KeysOf(lastDiff.changed)

\* The always-included sections the dispatch table declares per root tag.
AlwaysIncludedOf(root) ==
  IF root = "RecordType" THEN {"fullName", "active", "label"} ELSE {}

\* C2. Always-included invariant: every entry the new revision holds in an
\* always-included section (fullName, active, label of a RecordType) is in
\* changed, also when the old revision holds the same body, and no entry of
\* such a section is in removed, also when only the old revision has it.
C2_AlwaysIncluded ==
  lastDiff.ran =>
    \A section \in AlwaysIncludedOf(lastDiff.rootTagName) :
      /\ \A r \in RecordsOf(lastDiff.newSeq) :
           r.sectionName = section => r \in RecordsOf(lastDiff.changed)
      /\ \A r \in RecordsOf(lastDiff.removed) : r.sectionName # section

\* A RecordType diff whose fullName is the same in both revisions and is in
\* changed, and whose label only the old revision has.
C2_Witness ==
  /\ lastDiff.ran
  /\ lastDiff.rootTagName = "RecordType"
  /\ \E r \in RecordsOf(lastDiff.newSeq) :
       /\ r.sectionName = "fullName"
       /\ r \in RecordsOf(lastDiff.oldSeq)
       /\ r \in RecordsOf(lastDiff.changed)
  /\ \E r \in RecordsOf(lastDiff.oldSeq) :
       /\ r.sectionName = "label"
       /\ ~Present(lastDiff.newSeq, r)
       /\ r \notin RecordsOf(lastDiff.removed)

\* The directory names of a path, from the root of the repository.
Segments(path) == split(path, "/")

UnderMetadataFolder(path) ==
  /\ Len(Segments(path)) > 3
  /\ SubSeq(Segments(path), 1, 3) = <<<<"force-app">>, <<"main">>, <<"default">>>>

\* The strategy of section 4.6 for a path, by its metadata directory.
StrategyOf(path) ==
  LET seg == Segments(path)
      type == IF UnderMetadataFolder(path) THEN seg[4] ELSE <<>>
  IN  IF type \in {<<"aura">>, <<"objectTranslations">>, <<"staticresources">>}
      THEN "bundleCopy"
      ELSE IF type = <<"objects">>
      THEN IF Len(seg) > 6 /\ seg[6] = <<"recordTypes">> THEN "compoundDiff"
           ELSE "verbatim"
      ELSE IF type \in {<<"labels">>, <<"profiles">>, <<"permissionsets">>,
                        <<"sharingRules">>, <<"assignmentRules">>,
                        <<"autoResponseRules">>, <<"matchingRules">>,
                        <<"translations">>, <<"workflows">>}
      THEN "compoundDiff"
      ELSE "verbatim"

\* C3. Rename handling: once a run has ended without an error, every rename
\* line old-path new-path was treated as a deletion of the old path (with a
\* destructive directory, the from-revision content of the old path is in the
\* destructive package at the same path) plus a normal change of the new path
\* (the new path got the strategy a modified path there gets: its switch case
\* when it lies under force-app/main/default, nothing when it does not).
C3_RenameIsDeletePlusChange ==
  (pc = "done" /\ error = "") =>
    \A diffFileParts \in LinesRead :
      (Len(diffFileParts) = 3 /\ IsStatus(diffFileParts, "R")) =>
        /\ destructivedir =>
             /\ exists(destr, diffFileParts[2])
             /\ destr[diffFileParts[2]] = fromRev[diffFileParts[2]]
        /\ IF startsWith(diffFileParts[3], FMD_FOLDER)
           THEN \E j \in 1..Len(applied) :
                  applied[j] = [path |-> diffFileParts[3],
                                kind |-> StrategyOf(diffFileParts[3])]
           ELSE \A j \in 1..Len(applied) : applied[j].path # diffFileParts[3]

\* C4. Deletion bypasses diffing: for a line with status D and a path under
\* force-app/main/default, no switch case and no diff is ever run for the path
\* and nothing is written for it to the change package; with a destructive
\* directory, once the loop over the deleted paths has ended, the destructive
\* package holds the from-revision content of the path, unmodified.
C4_DeletionBypassesDiff ==
  \A diffFileParts \in LinesRead :
    (IsStatus(diffFileParts, "D") /\ startsWith(diffFileParts[2], FMD_FOLDER)) =>
      /\ ~exists(pkg, diffFileParts[2])
      /\ \A j \in 1..Len(applied) : applied[j].path # diffFileParts[2]
      /\ lastDiff.ran => lastDiff.path # diffFileParts[2]
      /\ (destructivedir /\ DeletionsDone) =>
           /\ exists(destr, diffFileParts[2])
           /\ destr[diffFileParts[2]] = fromRev[diffFileParts[2]]

\* A finished run with a destructive directory that deleted the labels file, a
\* compound-diff type: its old content is in the destructive package.
C4_Witness ==
  /\ pc = "done"
  /\ destructivedir
  /\ <<<<"D">>, labelsFile>> \in LinesRead
  /\ exists(destr, labelsFile)
  /\ destr[labelsFile] = fromRev[labelsFile]
  /\ fromRev[labelsFile].kind = "xml"

\* C5. Strategy dispatch: each changed path the loop has taken up got one
\* switch case, the one of its directory (compound diff with root RecordType
\* under objects/<object>/recordTypes, verbatim elsewhere under objects and
\* for every directory the table does not name); a verbatim path whose work
\* item ended is in the change package with the content of the working tree.
C5_StrategyDispatch ==
  /\ Len(applied) \in {chgNo - 1, chgNo}
  /\ \A j \in 1..Len(applied) :
       /\ applied[j].path = changedMetadataFilePathList[j]
       /\ applied[j].kind = StrategyOf(applied[j].path)
  /\ \A j \in 1..(chgNo - 1) :
       LET path == changedMetadataFilePathList[j]
       IN  /\ j <= Len(applied)
           /\ StrategyOf(path) = "verbatim" =>
                exists(pkg, path) /\ pkg[path] = worktree[path]
  /\ (lastDiff.ran /\ Len(Segments(lastDiff.path)) > 6
        /\ Segments(lastDiff.path)[4] = <<"objects">>) =>
       lastDiff.rootTagName = "RecordType"

\* A run that materialized the record type by a compound diff and the field
\* of the same object verbatim.
C5_Witness ==
  /\ \E j \in 1..(chgNo - 1) :
       applied[j] = [path |-> recordTypeFile, kind |-> "compoundDiff"]
  /\ \E j \in 1..(chgNo - 1) :
       applied[j] = [path |-> fieldFile, kind |-> "verbatim"]
  /\ exists(pkg, fieldFile)
  /\ pkg[recordTypeFile].root = "RecordType"

\* The metadata directory of a path: the name right below force-app/main/default.
TypeOf(path) == IF UnderMetadataFolder(path) THEN Segments(path)[4] ELSE <<>>

\* The compound types whose removed entries are metadata that a destructive
\* package can delete.
DestructibleTypes ==
  {<<"labels">>, <<"sharingRules">>, <<"assignmentRules">>,
   <<"autoResponseRules">>, <<"matchingRules">>, <<"workflows">>}

\* C6 as stated. Removed entries reach the destructive package: after the
\* compound diff of a changed path ran to its end, the change package holds
\* the composed changed result at the path and, with a destructive directory,
\* the destructive package holds the composed removed result at the path, for
\* every compound type.
C6_RemovedReachDestructiveAsStated ==
  (lastDiff.ran /\ lastDiff.path \in Materialized) =>
    /\ exists(pkg, lastDiff.path)
    /\ pkg[lastDiff.path] = CanonicalCompose(lastDiff.changed, lastDiff.rootTagName)
    /\ destructivedir =>
         /\ exists(destr, lastDiff.path)
         /\ destr[lastDiff.path]
              = CanonicalCompose(lastDiff.removed, lastDiff.rootTagName)

\* C6 (amended). After the compound diff of a changed path ran to its end, the
\* change package holds the composed changed result at the path; with a
\* destructive directory, the destructive package holds the composed removed
\* result at the path for labels, sharing rules, assignment rules, auto-response
\* rules, matching rules and workflows, and holds no file at the path for
\* record types, profiles, permission sets and translations.
C6_RemovedReachDestructive ==
  (lastDiff.ran /\ lastDiff.path \in Materialized) =>
    /\ exists(pkg, lastDiff.path)
    /\ pkg[lastDiff.path] = CanonicalCompose(lastDiff.changed, lastDiff.rootTagName)
    /\ destructivedir =>
         IF TypeOf(lastDiff.path) \in DestructibleTypes
         THEN /\ exists(destr, lastDiff.path)
              /\ destr[lastDiff.path]
                   = CanonicalCompose(lastDiff.removed, lastDiff.rootTagName)
         ELSE ~exists(destr, lastDiff.path)

\* A run with a destructive directory that diffed the labels, whose removed
\* label is in the destructive package, and then the profile, whose removed
\* class access is not.
C6_Witness ==
  /\ destructivedir
  /\ {labelsFile, profileFile} \subseteq Materialized
  /\ exists(destr, labelsFile)
  /\ destr[labelsFile].elems # <<>>
  /\ lastDiff.ran
  /\ lastDiff.path = profileFile
  /\ lastDiff.removed # <<>>
  /\ lastDiff.changed # <<>>
  /\ ~exists(destr, profileFile)
  /\ pkg[profileFile] = CanonicalCompose(lastDiff.changed, "Profile")

\* C7. Per-file failure isolation: when run has returned, every path of the
\* deleted list (with a destructive directory) and of the changed list was
\* processed to its end, but for the paths whose own processing failed: a
\* failure at one path leaves no later path unprocessed.
C7_FailureIsolation ==
  pc = "done" =>
    LET failedDeletion ==
          destructivedir /\ delNo <= Len(deletedMetadataFilePathList)
    IN  /\ destructivedir =>
             \A k \in 1..Len(deletedMetadataFilePathList) :
               k < delNo \/ (k = delNo /\ error # "")
        /\ \A k \in 1..Len(changedMetadataFilePathList) :
             k < chgNo \/ (k = chgNo /\ error # "" /\ ~failedDeletion)

\* C8. Failure is surfaced: what run returns reports success exactly when no
\* path failed.
C8_FailureSurfaced ==
  result.returned => (result.success <=> error = "")

\* C9. Companion descriptor copy: for every changed path p whose work item ran
\* to its end, whichever case handled it, the change package holds p-meta.xml
\* with the content of the working tree if the working tree has that file, and
\* holds no such file if it has not (and the work item still ran to its end).
C9_CompanionDescriptor ==
  \A j \in 1..(chgNo - 1) :
    LET metaFileName == changedMetadataFilePathList[j] \o <<"-meta", ".", "xml">>
    IN  IF exists(worktree, metaFileName)
        THEN exists(pkg, metaFileName) /\ pkg[metaFileName] = worktree[metaFileName]
        ELSE ~exists(pkg, metaFileName)

\* A run that copied a class (verbatim) with its companion and then diffed
\* the labels, which have none.
C9_Witness ==
  /\ {classFile, labelsFile} \subseteq Materialized
  /\ exists(pkg, classFile)
  /\ exists(pkg, classMetaFile)
  /\ pkg[classMetaFile] = worktree[classMetaFile]
  /\ exists(pkg, labelsFile)
  /\ ~exists(worktree, labelsFile \o <<"-meta", ".", "xml">>)
  /\ ~exists(pkg, labelsFile \o <<"-meta", ".", "xml">>)

\* The directory a path lies in, by its segments.
DirOf(path) == join(SubSeq(Segments(path), 1, Len(Segments(path)) - 1), "/")

\* The files of the working tree that lie right in the directory of a path.
SiblingsOf(path) ==
  {f \in DOMAIN worktree :
     Len(Segments(f)) = Len(Segments(path)) /\ DirOf(f) = DirOf(path)}

InPackage(f) == exists(pkg, f) /\ pkg[f] = worktree[f]

\* <folder>/<folderName>.objectTranslation-meta.xml
ObjectTranslationDescriptorOf(path) ==
  LET seg == Segments(path)
  IN  DirOf(path) \o <<"/">> \o seg[Len(seg) - 1]
        \o <<".", "objectTranslation", "-meta", ".", "xml">>

\* The last dot of a file name, 0 for none.
LastDot(name) ==
  IF \E k \in 1..Len(name) : name[k] = "."
  THEN CHOOSE k \in 1..Len(name) :
         name[k] = "." /\ \A m \in (k + 1)..Len(name) : name[m] # "."
  ELSE 0

\* Whether a file name is that of a static resource descriptor.
IsResourceDescriptorName(name) ==
  /\ Len(name) >= 5
  /\ SubSeq(name, Len(name) - 4, Len(name)) = <<".", "resource", "-meta", ".", "xml">>

\* staticresources/<resourceName>.resource-meta.xml: the resource is the
\* directory right below staticresources, or the file there less its
\* extension; a descriptor right below staticresources is its own.
StaticResourceDescriptorOf(path) ==
  LET seg == Segments(path)
      resourceName == IF Len(seg) > 5 THEN seg[5]
                      ELSE IF IsResourceDescriptorName(seg[5])
                      THEN SubSeq(seg[5], 1, Len(seg[5]) - 5)
                      ELSE SubSeq(seg[5], 1, LastDot(seg[5]) - 1)
  IN  join(SubSeq(seg, 1, 4), "/") \o <<"/">> \o resourceName
        \o <<".", "resource", "-meta", ".", "xml">>

IsBundleType(path) ==
  TypeOf(path) \in {<<"aura">>, <<"objectTranslations">>, <<"staticresources">>}

\* The descriptors of the object translations and static resources that the
\* changed paths processed so far belong to.
DescriptorsTakenUp ==
  {ObjectTranslationDescriptorOf(q) :
     q \in {m \in Materialized : TypeOf(m) = <<"objectTranslations">>}}
    \cup {StaticResourceDescriptorOf(q) :
            q \in {m \in Materialized : TypeOf(m) = <<"staticresources">>}}

\* C10 as stated. Bundle copy: for every changed path of a bundle type (aura,
\* objectTranslations, staticresources) whose work item ran to its end, the
\* change package holds every file of the directory the path lies in, and the
\* descriptor of the bundle.
C10_BundleCopyAsStated ==
  \A j \in 1..(chgNo - 1) :
    LET path == changedMetadataFilePathList[j]
    IN  IsBundleType(path) =>
          /\ \A f \in SiblingsOf(path) : InPackage(f)
          /\ TypeOf(path) = <<"objectTranslations">> =>
               InPackage(ObjectTranslationDescriptorOf(path))
          /\ TypeOf(path) = <<"staticresources">> =>
               InPackage(StaticResourceDescriptorOf(path))

\* C10 (amended). Bundle copy: for every changed path of a bundle type whose
\* work item ran to its end, the change package holds, for aura, every file of
\* the directory the path lies in; for objectTranslations, the path itself
\* and <folder>/<folderName>.objectTranslation-meta.xml; for staticresources,
\* the path itself and staticresources/<resourceName>.resource-meta.xml; of
\* the other files of an object translation or static resource directory it
\* holds those only that are changed paths or such descriptors themselves.
C10_BundleCopy ==
  \A j \in 1..(chgNo - 1) :
    LET path == changedMetadataFilePathList[j]
    IN  /\ TypeOf(path) = <<"aura">> => \A f \in SiblingsOf(path) : InPackage(f)
        /\ TypeOf(path) = <<"objectTranslations">> =>
             /\ InPackage(path)
             /\ InPackage(ObjectTranslationDescriptorOf(path))
        /\ TypeOf(path) = <<"staticresources">> =>
             /\ InPackage(path)
             /\ InPackage(StaticResourceDescriptorOf(path))
        /\ TypeOf(path) \in {<<"objectTranslations">>, <<"staticresources">>} =>
             \A f \in SiblingsOf(path) :
               exists(pkg, f) => f \in Materialized \cup DescriptorsTakenUp

\* A run that took up one file of an aura component, and has both files of it
\* in the change package, and one file of an object translation, and has that
\* file and the descriptor in the change package but not the other file.
C10_Witness ==
  /\ {auraJsFile, otFieldFile} \subseteq Materialized
  /\ InPackage(auraJsFile)
  /\ InPackage(auraCmpFile)
  /\ InPackage(otFieldFile)
  /\ InPackage(otDescriptor)
  /\ exists(worktree, otOtherFile)
  /\ ~exists(pkg, otOtherFile)

\* Two writes to one output file.
SameOutput(a, b) == a.package = b.package /\ a.path = b.path

C18_OnlyMetadataPaths ==
  /\ \A k \in 1..Len(changedMetadataFilePathList) :
       startsWith(changedMetadataFilePathList[k], FMD_FOLDER)
  /\ \A k \in 1..Len(deletedMetadataFilePathList) :
       startsWith(deletedMetadataFilePathList[k], FMD_FOLDER)
  /\ \A f \in DOMAIN pkg : startsWith(f, FMD_FOLDER)
  /\ \A f \in DOMAIN destr : startsWith(f, FMD_FOLDER)
  /\ \A f \in pkgDirs \cup destrDirs :
       startsWith(f, FMD_FOLDER) \/ startsWith(FMD_FOLDER, f)

(***************************************************************************)
(* The helpers of utilities.ts called on their own.  The orchestrator is   *)
(* at rest: nothing was read, nothing is written.                          *)
(***************************************************************************)
DeltaAtRest ==
  /\ gitDiffList = EmptyLine
  /\ fromRev = EmptyFS
  /\ worktree = EmptyFS
  /\ destructivedir = FALSE
  /\ changedMetadataFilePathList = <<>>
  /\ deletedMetadataFilePathList = <<>>
  /\ lineNo = 1
  /\ delNo = 1
  /\ chgNo = 1
  /\ pkg = EmptyFS
  /\ pkgDirs = {}
  /\ destr = EmptyFS
  /\ destrDirs = {}
  /\ pc = "rest"
  /\ error = ""
  /\ result = NoResult
  /\ applied = <<>>
  /\ lastDiff = NoDiff
  /\ written = <<>>

deltaVars ==
  <<gitDiffList, fromRev, worktree, destructivedir, changedMetadataFilePathList,
    deletedMetadataFilePathList, lineNo, delNo, chgNo, pkg, pkgDirs, destr,
    destrDirs, pc, error, result, applied, lastDiff, written>>

\* File names of a decomposed profile: <Section>.<name>.xml, the name of a
\* layout assignment being <layout> or <layout>.<recordType>.
DotXml == <<".", "x", "m", "l">>

classAccessesName == <<"c", "l", "a", "s", "s", "A", "c", "c", "e", "s", "s", "e", "s">>

userPermissionsName ==
  <<"u", "s", "e", "r", "P", "e", "r", "m", "i", "s", "s", "i", "o", "n", "s">>

LayoutAssignmentsCapital == <<"L">> \o Tail(layoutAssignments)

FileNames ==
  {layoutAssignments \o <<".", "A">> \o DotXml,
   layoutAssignments \o <<".", "A", "-", "B">> \o DotXml,
   layoutAssignments \o <<".", "A", "B">> \o DotXml,
   layoutAssignments \o <<".", "A", ".", "R">> \o DotXml,
   layoutAssignments \o <<".", "B">> \o DotXml,
   LayoutAssignmentsCapital \o <<".", "A", "B", ".", "R">> \o DotXml,
   classAccessesName \o <<".", "A">> \o DotXml,
   classAccessesName \o <<".", "A", "B">> \o DotXml,
   userPermissionsName \o <<".", "A">> \o DotXml,
   userPermissionsName \o <<".", "B">> \o DotXml}

InitCompare ==
  /\ DeltaAtRest
  /\ \/ /\ fn = "profileAccessFilenamesCompare"
        /\ args \in FileNames \X FileNames \X FileNames
     \/ /\ fn = "sort"
        /\ args \in {l \in FileNames \X FileNames \X FileNames :
                       l[1] # l[2] /\ l[1] # l[3] /\ l[2] # l[3]}
  /\ ret = Pending

\* The comparator called on every ordered pair the properties look at.
CompareFileNames ==
  /\ fn = "profileAccessFilenamesCompare"
  /\ ret = Pending
  /\ ret' = [ab |-> profileAccessFilenamesCompare(args[1], args[2]),
             ba |-> profileAccessFilenamesCompare(args[2], args[1]),
             bc |-> profileAccessFilenamesCompare(args[2], args[3]),
             ac |-> profileAccessFilenamesCompare(args[1], args[3])]
  /\ UNCHANGED <<deltaVars, fn, args>>

\* The orders a listing of three names can come in.
Orders == {o \in [1..3 -> 1..3] : {o[1], o[2], o[3]} = {1, 2, 3}}

\* A listing of the files of a decomposed profile sorted with the
\* comparator, in every order the listing can come in.
SortFileNames ==
  /\ fn = "sort"
  /\ ret = Pending
  /\ ret' = [o \in Orders |-> sortFileNames(<<args[o[1]], args[o[2]], args[o[3]]>>)]
  /\ UNCHANGED <<deltaVars, fn, args>>

NextCompare == CompareFileNames \/ SortFileNames

SpecCompare == InitCompare /\ [][NextCompare]_vars

Compared == fn = "profileAccessFilenamesCompare" /\ ret # Pending

\* The section a file name tells, the case of its first letter aside.
IsLayoutAssignmentsName(fileName) ==
  LET section == split(fileName, ".")[1]
  IN  section = layoutAssignments \/ section = LayoutAssignmentsCapital

\* The layout name: the piece between the first and the second dot.
LayoutNameOf(fileName) == split(fileName, ".")[2]

SegmentCount(fileName) == Len(split(fileName, "."))

StrictPrefix(a, b) == Len(a) < Len(b) /\ SubSeq(b, 1, Len(a)) = a

\* 1 when a sorts after b in ascending code-unit order, -1 when before.
PlainCompare(a, b) == IF StrLess(a, b) THEN -1 ELSE 1

\* C16. Hierarchical tie-break: for two distinct layoutAssignments names with
\* different segment counts, the one with more segments is after the other
\* when the layout names are equal, and the layout names decide otherwise;
\* with equal segment counts a layout name that is a strict prefix of the
\* other is before it; for a first name of any other section the result is
\* the plain ascending string comparison of the two names.
C16_HierarchicalTieBreak ==
  (Compared /\ args[1] # args[2]) =>
    LET a == args[1]
        b == args[2]
    IN  IF IsLayoutAssignmentsName(a)
        THEN IsLayoutAssignmentsName(b) =>
               /\ (SegmentCount(a) # SegmentCount(b)
                     /\ LayoutNameOf(a) = LayoutNameOf(b)) =>
                    ret.ab = (IF SegmentCount(a) > SegmentCount(b) THEN 1 ELSE -1)
               /\ (SegmentCount(a) # SegmentCount(b)
                     /\ LayoutNameOf(a) # LayoutNameOf(b)) =>
                    ret.ab = PlainCompare(LayoutNameOf(a), LayoutNameOf(b))
               /\ (SegmentCount(a) = SegmentCount(b)
                     /\ StrictPrefix(LayoutNameOf(a), LayoutNameOf(b))) => ret.ab = -1
               /\ (SegmentCount(a) = SegmentCount(b)
                     /\ StrictPrefix(LayoutNameOf(b), LayoutNameOf(a))) => ret.ab = 1
        ELSE ret.ab = PlainCompare(a, b)

\* Two layout assignments of one layout, with and without a record type, and
\* the name with the record type is after the other, though the plain
\* comparison of the names says before.
C16_Witness ==
  /\ Compared
  /\ IsLayoutAssignmentsName(args[1])
  /\ IsLayoutAssignmentsName(args[2])
  /\ LayoutNameOf(args[1]) = LayoutNameOf(args[2])
  /\ SegmentCount(args[1]) > SegmentCount(args[2])
  /\ ret.ab = 1
  /\ PlainCompare(args[1], args[2]) = -1

\* C17. The comparator is a strict total order on distinct file names:
\* compare(a, b) = -compare(b, a) for distinct a and b, of whatever
\* sections, and compare(a, b) < 0 and compare(b, c) < 0 imply
\* compare(a, c) < 0.
C17_StrictTotalOrder ==
  Compared =>
    /\ args[1] # args[2] => ret.ab = -ret.ba
    /\ (ret.ab < 0 /\ ret.bc < 0) => ret.ac < 0

(***************************************************************************)
(* profileAccessNameMap.loginIpRanges on two entries.                      *)
(***************************************************************************)
\* Dotted quads a.0.0.d; the first and the last component vary in length,
\* and one first component has a leading zero.
FirstOctets == {<<"2">>, <<"0", "2">>, <<"1", "0">>, <<"1", "0", "0">>}

LastOctets == {<<"0">>, <<"9">>, <<"2", "5">>, <<"2", "5", "5">>}

Addresses == {a \o <<".", "0", ".", "0", ".">> \o d : a \in FirstOctets, d \in LastOctets}

LoginIpRanges == [startAddress : Addresses, endAddress : Addresses]

InitIdentity ==
  /\ DeltaAtRest
  /\ fn = "profileAccessNameMap.loginIpRanges"
  /\ args \in LoginIpRanges \X LoginIpRanges
  /\ ret = Pending

\* The identity keys of the two entries.
ResolveIdentity ==
  /\ fn = "profileAccessNameMap.loginIpRanges"
  /\ ret = Pending
  /\ ret' = [key1 |-> profileAccessNameMap("loginIpRanges", args[1]),
             key2 |-> profileAccessNameMap("loginIpRanges", args[2])]
  /\ UNCHANGED <<deltaVars, fn, args>>

NextIdentity == ResolveIdentity

SpecIdentity == InitIdentity /\ [][NextIdentity]_vars

Resolved == fn = "profileAccessNameMap.loginIpRanges" /\ ret # Pending

\* The number a run of decimal digits denotes.
RECURSIVE NumberOf(_)
NumberOf(digits) ==
  IF Len(digits) = 0 THEN 0
  ELSE 10 * NumberOf(SubSeq(digits, 1, Len(digits) - 1))
         + (CharCode(digits[Len(digits)]) - CharCode("0"))

\* The components of the two boundaries of a range, as numbers.
RangeTuple(entry) ==
  LET parts == split(entry.startAddress, ".") \o split(entry.endAddress, ".")
  IN  [k \in 1..Len(parts) |-> NumberOf(parts[k])]

\* Lexicographic order of two tuples of numbers of one length.
TupleLess(s, t) ==
  \E k \in 1..Len(s) : s[k] < t[k] /\ \A j \in 1..(k - 1) : s[j] = t[j]

\* C15. Numeric-range identity: for two loginIpRanges entries whose
\* boundaries are dotted quads with components in 0..255, the identity key of
\* the first is less than that of the second as a string exactly when its
\* tuple of components (start, then end) is less as a tuple of numbers, and
\* the keys are equal only if the tuples are.
C15_NumericRangeIdentity ==
  Resolved =>
    /\ StrLess(ret.key1, ret.key2) <=> TupleLess(RangeTuple(args[1]), RangeTuple(args[2]))
    /\ ret.key1 = ret.key2 => RangeTuple(args[1]) = RangeTuple(args[2])

\* Two ranges whose start addresses compare one way as strings (10... before
\* 2...) and the other way as numbers, and whose keys follow the numbers.
C15_Witness ==
  /\ Resolved
  /\ StrLess(args[1].startAddress, args[2].startAddress)
  /\ TupleLess(RangeTuple(args[2]), RangeTuple(args[1]))
  /\ StrLess(ret.key2, ret.key1)
  /\ Len(ret.key1) = 31

Sorted == fn = "sort" /\ ret # Pending

\* C13. Deterministic ordering: sorting one set of entries with the
\* comparator from any two orders of the input yields the same sequence.
C13_DeterministicOrdering ==
  Sorted => \A o, q \in Orders : ret[o] = ret[q]

\* The section of a single-entry file: the piece of its name before the
\* first dot, first letter in lower case.
SectionOfName(fileName) == uncapitalizeFirstLetter(substringBefore(fileName, "."))

\* The identity key of a single-entry file: its name between the section
\* and the extension.
KeyOfName(fileName) == substringBeforeLast(substringAfter(fileName, "."), ".")

\* C12. Compose ordering: in the output for any set of single-entry files
\* the entries of each section are in ascending order of identity key under
\* the code-unit string comparison, and the output has exactly as many
\* entries as there were input files.
C12_ComposeOrdering ==
  Sorted =>
    \A o \in Orders :
      /\ Len(ret[o]) = Len(args)
      /\ \A j, k \in 1..Len(ret[o]) :
           (j < k /\ SectionOfName(ret[o][j]) = SectionOfName(ret[o][k])) =>
             StrLess(KeyOfName(ret[o][j]), KeyOfName(ret[o][k]))

(***************************************************************************)
(* Decompose and compose of custom labels (section 4.5).  decompose writes *)
(* one file per entry, <identity key>.xml, holding the entry under the     *)
(* root tag label, one element per field; compose reads every file of the  *)
(* directory, in the order the file system lists them, parses each into    *)
(* its entry and composes the entries canonically.                         *)
(***************************************************************************)
\* The most entries of a source document.
MaxEntries == 3

LabelPool ==
  {Label(<<"l", "a", "b", "e", "l", "1">>, <<"1">>),
   Label(<<"l", "a", "b", "e", "l", "2">>, <<"1">>),
   Label(<<"l", "a", "b", "e", "l", "Z">>, <<"1">>),
   Label(<<"l", "a", "b", "e", "l", "a">>, <<"1">>),
   Label(<<"l", "a", "b", "e", "l", "a">>, <<"2">>)}

\* Up to MaxEntries different labels in any order; two labels of the pool
\* share their fullName.
LabelLists ==
  {e \in UNION {[1..m -> LabelPool] : m \in 0..MaxEntries} :
     \A j, k \in 1..Len(e) : j # k => e[j] # e[k]}

SourceDocuments ==
  {Xml("CustomLabels", [k \in 1..Len(e) |-> El("labels", e[k])]) : e \in LabelLists}

\* The elements of a single-entry file: one per field, in canonical order.
RECURSIVE EntryToElems(_, _)
EntryToElems(entry, fields) ==
  IF Len(fields) = 0 THEN <<>>
  ELSE (IF fields[1] \in DOMAIN entry
        THEN <<El(fields[1], Scalar(entry[fields[1]]))>> ELSE <<>>)
         \o EntryToElems(entry, Tail(fields))

\* The entry a single-entry file holds: the text of each of its elements.
EntryOfFile(content) ==
  LET sections == Parse(content).sections
  IN  [f \in {sections[k].name : k \in 1..Len(sections)} |->
         (CHOOSE x \in {sections[k] : k \in 1..Len(sections)} : x.name = f).items[1].text]

\* Mutant: the file is named after the section of the entry.
decomposedFileNameBySection(record) == <<record.sectionName>> \o DotXml

\* The file of an entry: its identity key and .xml.
decomposedFileName(record) == record.identityKey \o DotXml

\* Decomposer.decompose: one file per entry; a later entry of the same file
\* name overwrites the earlier.
RECURSIVE decompose(_, _)
decompose(records, dir) ==
  IF Len(records) = 0 THEN dir
  ELSE decompose(Tail(records),
                 Put(dir, decomposedFileName(records[1]),
                     Xml("label", EntryToElems(records[1].entry, FieldOrder))))

\* The records of the files of a listing, in listing order.
RECURSIVE readAll(_, _)
readAll(dir, listing) ==
  IF Len(listing) = 0 THEN <<>>
  ELSE <<FlatRecord("CustomLabels", "labels", EntryOfFile(dir[listing[1]]))>>
         \o readAll(dir, Tail(listing))

\* Composer.compose: the canonical document of the entries of the files.
compose(dir, listing) == CanonicalCompose(readAll(dir, listing), "CustomLabels")

\* The orders in which the directory may be listed.
Listings(names) ==
  {l \in [1..Cardinality(names) -> names] :
     \A j, k \in 1..Cardinality(names) : j # k => l[j] # l[k]}

InitCompose ==
  /\ DeltaAtRest
  /\ fn = "decompose"
  /\ args \in SourceDocuments
  /\ ret = Pending

Decompose ==
  /\ fn = "decompose"
  /\ fn' = "compose"
  /\ ret' = [decomposed |-> decompose(Flatten(Parse(args)), EmptyFS),
             composed |-> Absent]
  /\ UNCHANGED <<deltaVars, args>>

Compose ==
  /\ fn = "compose"
  /\ \E listing \in Listings(DOMAIN ret.decomposed) :
       ret' = [ret EXCEPT !.composed = compose(ret.decomposed, listing)]
  /\ fn' = "composed"
  /\ UNCHANGED <<deltaVars, args>>

NextCompose == Decompose \/ Compose

SpecCompose == InitCompose /\ [][NextCompose]_vars

Composed == fn = "composed"

====
